---- MODULE Spec2Model ----
(***************************************************************************)
(* Model of sampling_script.py: the RDProjectRandomizer class.             *)
(*                                                                         *)
(* Text values are sequences of one-character strings, so that str() and   *)
(* strip() are computed rather than assumed.  Python scalars are tagged    *)
(* records (None, NaN, str, int).  The process-wide generator of the       *)
(* random module is one integer state; random.seed maps a seed to a state  *)
(* and every draw advances the state.                                      *)
(***************************************************************************)
EXTENDS Integers, Sequences, FiniteSets, TLC

VARIABLES rng,      \* state of the process-wide random generator
          inst,     \* seed argument of the live RDProjectRandomizer, or NoInstance
          call,     \* the last call: its name and arguments
          ret,      \* what the last call returned (NoReturn when it raised)
          raised,   \* the exception the last call raised to its caller, or "none"
          out,      \* the lines the last call printed
          ran,      \* the steps of the class the last call went through
          resolved, \* the project list the last randomize_projects call resolved
          draws,    \* the number of generator draws the last call consumed
          hist      \* the first selections made after the last two constructions

vars == <<rng, inst, call, ret, raised, out, ran, resolved, draws, hist>>

----------------------------------------------------------------------------
\* Bounds of the model.

MaxLen == 3        \* longest raw list enumerated entry by entry
MaxN == 13         \* longest list of distinct project names
MaxPick == 3       \* longest list handed to select_random_projects directly
RngMod == 4        \* number of generator states
MaxTotal == 203    \* largest portfolio size handed to get_recommended_sample_size

----------------------------------------------------------------------------
\* Python scalars.

None == [t |-> "none"]
NaN == [t |-> "nan"]
StrV(s) == [t |-> "str", s |-> s]
IntV(n) == [t |-> "int", n |-> n]
NoReturn == [t |-> "noreturn"]
NoInstance == [t |-> "noinstance"]
NoRun == [t |-> "norun"]

Whitespace == {" "}

DigitChar == <<"0", "1", "2", "3", "4", "5", "6", "7", "8", "9">>

RECURSIVE Digits(_)
Digits(n) == IF n < 10 THEN <<DigitChar[n + 1]>>
             ELSE Digits(n \div 10) \o <<DigitChar[(n % 10) + 1]>>

\* str(x) for the scalars of the model
str(x) == CASE x.t = "str" -> x.s
            [] x.t = "int" -> IF x.n < 0 THEN <<"-">> \o Digits(0 - x.n) ELSE Digits(x.n)
            [] x.t = "none" -> <<"N", "o", "n", "e">>
            [] x.t = "nan" -> <<"n", "a", "n">>

RECURSIVE lstrip(_)
lstrip(s) == IF s # <<>> /\ Head(s) \in Whitespace THEN lstrip(Tail(s)) ELSE s

RECURSIVE rstrip(_)
rstrip(s) == IF s # <<>> /\ s[Len(s)] \in Whitespace
             THEN rstrip(SubSeq(s, 1, Len(s) - 1)) ELSE s

\* s.strip()
strip(s) == rstrip(lstrip(s))

\* variant: the kept entry is not trimmed, [str(p) for p in raw if str(p).strip()]
RECURSIVE normalize_untrimmed(_)
normalize_untrimmed(raw) ==
    IF raw = <<>> THEN <<>>
    ELSE IF strip(str(Head(raw))) # <<>>
         THEN <<str(Head(raw))>> \o normalize_untrimmed(Tail(raw))
         ELSE normalize_untrimmed(Tail(raw))

\* [str(p).strip() for p in raw if str(p).strip()]
RECURSIVE normalize(_)
normalize(raw) ==
    IF raw = <<>> THEN <<>>
    ELSE LET name == strip(str(Head(raw)))
         IN  IF name # <<>> THEN <<name>> \o normalize(Tail(raw))
             ELSE normalize(Tail(raw))

----------------------------------------------------------------------------
\* The random module.

abs(n) == IF n < 0 THEN 0 - n ELSE n

\* random.seed(a): the state is a function of abs(a)
seed_state(a) == (abs(a) * 5 + 3) % RngMod

\* one step of the generator
rng_next(s) == (s + 1) % RngMod

\* random._randbelow(n) read off state s, a value in 0..n-1
randbelow(s, n) == (s * 11 + 5) % n

\* random.sample(population, k), the pool branch (len(population) <= 21):
\*   for i in range(k): j = randbelow(n-i); result[i] = pool[j]; pool[j] = pool[n-i-1]
\* variant: the drawn entry stays in the pool (a draw with replacement)
swap_keep(pool, j) == pool

\* pool[j] = pool[n-1] followed by the shrinking of the live part of the pool
swap_remove(pool, j) ==
    IF j = Len(pool) THEN SubSeq(pool, 1, Len(pool) - 1)
    ELSE SubSeq(pool, 1, j - 1) \o <<pool[Len(pool)]>> \o SubSeq(pool, j + 1, Len(pool) - 1)

RECURSIVE sample_loop(_, _, _, _, _)
sample_loop(s, pool, k, result, drawn) ==
    IF k = 0 THEN [result |-> result, state |-> s, draws |-> drawn, raised |-> "none"]
    ELSE sample_loop(rng_next(s), swap_remove(pool, randbelow(s, Len(pool)) + 1),
                     k - 1, Append(result, pool[randbelow(s, Len(pool)) + 1]), drawn + 1)

\* "if not 0 <= k <= n: raise ValueError", then the loop
sample(s, population, k) ==
    IF k < 0 \/ k > Len(population)
    THEN [result |-> NoReturn, state |-> s, draws |-> 0, raised |-> "ValueError"]
    ELSE sample_loop(s, population, k, <<>>, 0)

----------------------------------------------------------------------------
\* get_recommended_sample_size

min(a, b) == IF a <= b THEN a ELSE b

GeneralNotes == <<"Conservative: Lower audit risk, higher documentation cost",
                  "Moderate: Balanced approach, most common selection",
                  "Aggressive: Higher audit risk, lower documentation cost",
                  "Consider project size, complexity, and credit value when selecting">>

Rec(n, c, m, a, note) ==
    [total_projects |-> n, conservative |-> c, moderate |-> m, aggressive |-> a,
     notes |-> <<note>> \o GeneralNotes]

\* variant: the first bucket ends below 10
recommendations_strict(total_projects) ==
    IF total_projects < 10 THEN
        Rec(total_projects, total_projects, total_projects, total_projects,
            "Document all projects for small portfolios")
    ELSE IF total_projects <= 25 THEN
        Rec(total_projects, min(total_projects, 15), min(total_projects, 12),
            min(total_projects, 8), "Small portfolio - document majority of projects")
    ELSE IF total_projects <= 50 THEN
        Rec(total_projects, min(total_projects, 25), min(total_projects, 18),
            min(total_projects, 12), "Medium portfolio - 25-50% documentation typical")
    ELSE IF total_projects <= 100 THEN
        Rec(total_projects, min(total_projects, 35), min(total_projects, 25),
            min(total_projects, 15), "Large portfolio - 15-35% documentation common")
    ELSE IF total_projects <= 200 THEN
        Rec(total_projects, min(total_projects, 50), min(total_projects, 35),
            min(total_projects, 20), "Very large portfolio - 10-25% documentation")
    ELSE
        Rec(total_projects, min(total_projects, 75), min(total_projects, 50),
            min(total_projects, 30), "Enterprise portfolio - 5-15% documentation may suffice")

recommendations(total_projects) ==
    IF total_projects <= 10 THEN
        Rec(total_projects, total_projects, total_projects, total_projects,
            "Document all projects for small portfolios")
    ELSE IF total_projects <= 25 THEN
        Rec(total_projects, min(total_projects, 15), min(total_projects, 12),
            min(total_projects, 8), "Small portfolio - document majority of projects")
    ELSE IF total_projects <= 50 THEN
        Rec(total_projects, min(total_projects, 25), min(total_projects, 18),
            min(total_projects, 12), "Medium portfolio - 25-50% documentation typical")
    ELSE IF total_projects <= 100 THEN
        Rec(total_projects, min(total_projects, 35), min(total_projects, 25),
            min(total_projects, 15), "Large portfolio - 15-35% documentation common")
    ELSE IF total_projects <= 200 THEN
        Rec(total_projects, min(total_projects, 50), min(total_projects, 35),
            min(total_projects, 20), "Very large portfolio - 10-25% documentation")
    ELSE
        Rec(total_projects, min(total_projects, 75), min(total_projects, 50),
            min(total_projects, 30), "Enterprise portfolio - 5-15% documentation may suffice")

----------------------------------------------------------------------------
\* select_random_projects, as a function of the generator state

Warning(requested, available) ==
    [msg |-> "Warning: Requested", requested |-> requested, available |-> available]

\* variant: the count is not clamped to the length of the list
select_unclamped(s, projects, num_to_select) ==
    IF num_to_select <= 0
    THEN [ret |-> <<>>, raised |-> "none", rng |-> s, out |-> <<>>, draws |-> 0]
    ELSE LET r == sample(s, projects, num_to_select)
         IN  [ret |-> r.result, raised |-> r.raised, rng |-> r.state, out |-> <<>>,
              draws |-> r.draws]

\* variant: only a count of zero returns early
select_zero_only(s, projects, num_to_select) ==
    LET clamp == num_to_select > Len(projects)
        k == IF clamp THEN Len(projects) ELSE num_to_select
        printed == IF clamp THEN <<Warning(num_to_select, Len(projects))>> ELSE <<>>
    IN  IF k = 0
        THEN [ret |-> <<>>, raised |-> "none", rng |-> s, out |-> printed, draws |-> 0]
        ELSE LET r == sample(s, projects, k)
             IN  [ret |-> r.result, raised |-> r.raised, rng |-> r.state, out |-> printed,
                  draws |-> r.draws]

select_random_projects(s, projects, num_to_select) ==
    LET clamp == num_to_select > Len(projects)
        k == IF clamp THEN Len(projects) ELSE num_to_select
        printed == IF clamp THEN <<Warning(num_to_select, Len(projects))>> ELSE <<>>
    IN  IF k <= 0
        THEN [ret |-> <<>>, raised |-> "none", rng |-> s, out |-> printed, draws |-> 0]
        ELSE LET r == sample(s, projects, k)
             IN  [ret |-> r.result, raised |-> r.raised, rng |-> r.state, out |-> printed,
                  draws |-> r.draws]

----------------------------------------------------------------------------
\* load_projects_from_excel.  A file is what pd.read_excel finds at the path:
\* unreadable, or a sheet of named columns of cells.

Col(name) == [t |-> "col", name |-> name]

truthy(project_column) == project_column.t = "col" /\ project_column.name # ""

HasColumn(df, name) == \E i \in 1..Len(df) : df[i].name = name

Column(df, name) == df[CHOOSE i \in 1..Len(df) : df[i].name = name].cells

NotNa(c) == c.t \notin {"nan", "none"}

dropna(cells) == SelectSeq(cells, NotNa)

LoadOk(projects) ==
    [ret |-> projects, raised |-> "none", caught |-> "none",
     out |-> <<[msg |-> "Loaded projects from Excel file", count |-> Len(projects)]>>]

LoadFail(exc) ==
    [ret |-> <<>>, raised |-> "none", caught |-> exc,
     out |-> <<[msg |-> "Error loading Excel file", cause |-> exc]>>]

\* variant: only ValueError is caught, a failing read_excel escapes
load_catching_value_error(file, project_column) ==
    IF ~file.readable THEN
        [ret |-> NoReturn, raised |-> "FileNotFoundError", caught |-> "none", out |-> <<>>]
    ELSE IF truthy(project_column) THEN
        IF ~HasColumn(file.columns, project_column.name)
        THEN LoadFail("ValueError: column not found")
        ELSE LoadOk(normalize(dropna(Column(file.columns, project_column.name))))
    ELSE IF file.columns = <<>> THEN
        [ret |-> NoReturn, raised |-> "IndexError", caught |-> "none", out |-> <<>>]
    ELSE LoadOk(normalize(dropna(file.columns[1].cells)))

load_projects_from_excel(file, project_column) ==
    IF ~file.readable THEN LoadFail("read_excel failed")
    ELSE IF truthy(project_column) THEN
        IF ~HasColumn(file.columns, project_column.name)
        THEN LoadFail("ValueError: column not found")
        ELSE LoadOk(normalize(dropna(Column(file.columns, project_column.name))))
    ELSE IF file.columns = <<>> THEN LoadFail("IndexError: no first column")
    ELSE LoadOk(normalize(dropna(file.columns[1].cells)))

----------------------------------------------------------------------------
\* randomize_projects, as a function of the generator state

PathV(file) == [t |-> "str", file |-> file]
ListV(items) == [t |-> "list", items |-> items]
OtherV == [t |-> "tuple"]

TierNames == {"conservative", "moderate", "aggressive"}

\* variant: the level is ignored
TierCountModerate(recs, level) == recs.moderate

\* recommendations[recommendation_level]
TierCount(recs, level) ==
    CASE level = "conservative" -> recs.conservative
      [] level = "moderate" -> recs.moderate
      [] level = "aggressive" -> recs.aggressive

\* round(x, 1) of x = num/den, in tenths, ties to even
RoundHalfEven(num, den) ==
    LET q == num \div den
        r == num % den
    IN  IF 2 * r < den THEN q
        ELSE IF 2 * r > den THEN q + 1
        ELSE IF q % 2 = 0 THEN q ELSE q + 1

\* round((selected / total) * 100, 1), in tenths of a percent
selection_percentage(selected, total) == RoundHalfEven(selected * 1000, total)

\* variant: the error result carries a total as well
ErrorResultWithTotal == [error |-> "No projects found in input", total_projects |-> 0]

\* the result of an empty project list
ErrorResult == [error |-> "No projects found in input"]

\* an exception leaves randomize_projects: nothing is returned
Raise(exc, s, printed, steps, projects) ==
    [ret |-> NoReturn, raised |-> exc, rng |-> s, out |-> printed, ran |-> steps,
     resolved |-> projects, draws |-> 0]

\* variant: the usage error is turned into an error result
UsageSwallowed(s) ==
    [ret |-> [error |-> "Input must be either file path (string) or list of projects"],
     raised |-> "none", rng |-> s, out |-> <<>>, ran |-> {}, resolved |-> NoReturn,
     draws |-> 0]

\* the input is neither a string nor a list
UsageError(s) == Raise("ValueError", s, <<>>, {}, NoReturn)

\* the list branch: the normalized list and its report
UsingList(ps) ==
    [ret |-> ps, raised |-> "none", caught |-> "none",
     out |-> <<[msg |-> "Using provided list", count |-> Len(ps)]>>]

randomize_projects(s, input_data, num_to_select, project_column, recommendation_level) ==
    IF input_data.t \notin {"str", "list"} THEN UsageError(s)
    ELSE
    LET loaded == IF input_data.t = "str"
                  THEN load_projects_from_excel(input_data.file, project_column)
                  ELSE UsingList(normalize(input_data.items))
        step1 == IF input_data.t = "str" THEN {"load"} ELSE {"normalize"}
        projects == loaded.ret
    IN  IF loaded.raised # "none" THEN Raise(loaded.raised, s, loaded.out, step1, NoReturn)
        ELSE IF projects = <<>> THEN
            [ret |-> ErrorResult, raised |-> "none", rng |-> s, out |-> loaded.out,
             ran |-> step1, resolved |-> projects, draws |-> 0]
        ELSE
        LET recs == recommendations(Len(projects))
            step2 == step1 \cup {"recommend"}
        IN  IF num_to_select.t = "none" /\ recommendation_level \notin TierNames THEN
                Raise("KeyError", s, loaded.out, step2, projects)
            ELSE
            LET n == IF num_to_select.t = "none"
                     THEN TierCount(recs, recommendation_level) ELSE num_to_select.n
                printed == IF num_to_select.t = "none"
                           THEN <<[msg |-> "Using recommendation",
                                   level |-> recommendation_level, count |-> n]>>
                           ELSE <<>>
                sel == select_random_projects(s, projects, n)
            IN  IF sel.raised # "none"
                THEN Raise(sel.raised, s, loaded.out \o printed \o sel.out,
                           step2 \cup {"select"}, projects)
                ELSE
                [ret |-> [total_projects |-> Len(projects),
                          selected_count |-> Len(sel.ret),
                          selected_projects |-> sel.ret,
                          recommendations |-> recs,
                          selection_percentage |->
                              selection_percentage(Len(sel.ret), Len(projects))],
                 raised |-> "none", rng |-> sel.rng,
                 out |-> loaded.out \o printed \o sel.out,
                 ran |-> step2 \cup {"select"}, resolved |-> projects,
                 draws |-> sel.draws]

----------------------------------------------------------------------------
\* Inputs.

RECURSIVE SeqsUpTo(_, _)
SeqsUpTo(S, n) ==
    IF n = 0 THEN {<<>>}
    ELSE LET shorter == SeqsUpTo(S, n - 1)
         IN  shorter \cup {Append(q, x) : q \in {r \in shorter : Len(r) = n - 1}, x \in S}

Seeds == {None, IntV(0), IntV(1), IntV(2)}

Names == {<<"a">>, <<"b">>}
PickLists == SeqsUpTo(Names, MaxPick)
PickCounts == (0 - 1)..(MaxPick + 1)

RawVals == {StrV(<<" ", "a", " ">>), StrV(<<>>), StrV(<<" ">>), IntV(7)}
RawLists == SeqsUpTo(RawVals, MaxLen)
ShortLists == SeqsUpTo(RawVals, 2)
\* the raw list 1, 2, ..., n: n distinct names after str()
Numbered(n) == [i \in 1..n |-> IntV(i)]
LongLists == {Numbered(n) : n \in 9..MaxN}
Counts == {IntV(0 - 1), IntV(0), IntV(5), IntV(MaxN + 2)}
Levels == TierNames \cup {"bogus"}

Unreadable == [readable |-> FALSE, columns |-> <<>>]
Sheet(columns) == [readable |-> TRUE, columns |-> columns]
Files == {Unreadable,
          Sheet(<<>>),
          Sheet(<<[name |-> "Project", cells |-> <<StrV(<<" ", "a", " ">>), NaN, IntV(7)>>]>>),
          Sheet(<<[name |-> "Id", cells |-> <<NaN, StrV(<<" ">>)>>],
                  [name |-> "Project", cells |-> <<StrV(<<"b">>), StrV(<<"b">>)>>]>>)}
ColumnArgs == {None, Col(""), Col("Project"), Col("Missing")}

\* the calls of randomize_projects the model makes
RandomizeCalls ==
    {<<ListV(l), n, None, lv>> : l \in ShortLists, n \in {None, IntV(1)},
                                 lv \in {"moderate", "bogus"}}
    \cup {<<ListV(l), None, None, lv>> : l \in LongLists, lv \in Levels}
    \cup {<<ListV(l), n, None, lv>> : l \in LongLists, n \in Counts, lv \in {"aggressive", "bogus"}}
    \cup {<<PathV(f), n, c, lv>> : f \in Files, n \in {None, IntV(1)}, c \in ColumnArgs,
                                   lv \in {"moderate", "bogus"}}
    \cup {<<OtherV, n, None, lv>> : n \in {None, IntV(1)}, lv \in {"moderate", "bogus"}}

----------------------------------------------------------------------------
\* Actions: one per operation of the program.

\* a process starts: the random module seeds its generator from system entropy
ProcessStart ==
    /\ rng' \in 0..(RngMod - 1)
    /\ inst' = NoInstance
    /\ call' = [op |-> "start"]
    /\ ret' = NoReturn
    /\ raised' = "none"
    /\ out' = <<>>
    /\ ran' = {}
    /\ resolved' = NoReturn
    /\ draws' = 0

\* RDProjectRandomizer(seed)
Construct(seed) ==
    /\ rng' = IF seed.t = "int" /\ seed.n # 0 THEN seed_state(seed.n) ELSE rng
    /\ inst' = seed
    /\ call' = [op |-> "__init__", seed |-> seed]
    /\ ret' = NoReturn
    /\ raised' = "none"
    /\ out' = <<>>
    /\ ran' = {}
    /\ resolved' = NoReturn
    /\ draws' = 0

SelectRandomProjects(projects, num_to_select) ==
    /\ inst # NoInstance
    /\ \E r \in {select_random_projects(rng, projects, num_to_select)} :
           /\ rng' = r.rng
           /\ ret' = r.ret
           /\ raised' = r.raised
           /\ out' = r.out
           /\ draws' = r.draws
    /\ call' = [op |-> "select_random_projects", projects |-> projects,
                num_to_select |-> num_to_select]
    /\ ran' = {"select"}
    /\ resolved' = NoReturn
    /\ UNCHANGED inst

GetRecommendedSampleSize(total_projects) ==
    /\ inst # NoInstance
    /\ ret' = recommendations(total_projects)
    /\ call' = [op |-> "get_recommended_sample_size", total_projects |-> total_projects]
    /\ raised' = "none"
    /\ out' = <<>>
    /\ ran' = {"recommend"}
    /\ resolved' = NoReturn
    /\ draws' = 0
    /\ UNCHANGED <<rng, inst>>

LoadProjectsFromExcel(file, project_column) ==
    /\ inst # NoInstance
    /\ \E r \in {load_projects_from_excel(file, project_column)} :
           /\ ret' = r.ret
           /\ raised' = r.raised
           /\ out' = r.out
    /\ call' = [op |-> "load_projects_from_excel", file |-> file,
                project_column |-> project_column]
    /\ ran' = {"load"}
    /\ resolved' = NoReturn
    /\ draws' = 0
    /\ UNCHANGED <<rng, inst>>

RandomizeProjects(input_data, num_to_select, project_column, recommendation_level) ==
    /\ inst # NoInstance
    /\ \E r \in {randomize_projects(rng, input_data, num_to_select, project_column,
                                   recommendation_level)} :
           /\ rng' = r.rng
           /\ ret' = r.ret
           /\ raised' = r.raised
           /\ out' = r.out
           /\ ran' = r.ran
           /\ resolved' = r.resolved
           /\ draws' = r.draws
    /\ call' = [op |-> "randomize_projects", input_data |-> input_data,
                num_to_select |-> num_to_select, project_column |-> project_column,
                recommendation_level |-> recommendation_level]
    /\ UNCHANGED inst

----------------------------------------------------------------------------
\* Specifications.

Init ==
    /\ rng \in 0..(RngMod - 1)
    /\ inst = NoInstance
    /\ call = [op |-> "start"]
    /\ ret = NoReturn
    /\ raised = "none"
    /\ out = <<>>
    /\ ran = {}
    /\ resolved = NoReturn
    /\ draws = 0
    /\ hist = [prev |-> NoRun, cur |-> NoRun]

Start == ProcessStart /\ UNCHANGED hist
New == \E seed \in {None, IntV(1)} : Construct(seed) /\ UNCHANGED hist
Randomize == \E c \in RandomizeCalls : RandomizeProjects(c[1], c[2], c[3], c[4]) /\ UNCHANGED hist
Load == \E f \in Files, c \in ColumnArgs : LoadProjectsFromExcel(f, c) /\ UNCHANGED hist

\* the orchestration and the spreadsheet loader
Next == Start \/ New \/ Randomize \/ Load
Spec == Init /\ [][Next]_vars

Normalize == \E l \in RawLists : RandomizeProjects(ListV(l), None, None, "moderate") /\ UNCHANGED hist

\* the normalization of raw lists and of spreadsheet columns
NextNorm == New \/ Normalize \/ Load
SpecNorm == Init /\ [][NextNorm]_vars

Select == \E p \in PickLists, k \in PickCounts : SelectRandomProjects(p, k) /\ UNCHANGED hist

\* direct calls of select_random_projects
NextSelect == Start \/ New \/ Select
SpecSelect == Init /\ [][NextSelect]_vars

Recommend == \E n \in 0..MaxTotal : GetRecommendedSampleSize(n) /\ UNCHANGED hist

\* direct calls of get_recommended_sample_size
NextRec == New \/ Recommend
SpecRec == Init /\ [][NextRec]_vars

\* two constructions, each followed by a first selection that is remembered
DetLists == {p \in PickLists : Len(p) = 2}
DetCounts == {1, 2}
DetNew == \E seed \in Seeds : Construct(seed) /\ UNCHANGED hist
DetSelect ==
    \E p \in DetLists, k \in DetCounts :
        /\ SelectRandomProjects(p, k)
        /\ hist' = IF call.op = "__init__"
                   THEN [prev |-> hist.cur,
                         cur |-> [seed |-> inst, projects |-> p, num_to_select |-> k,
                                  ret |-> ret']]
                   ELSE hist

NextDet == Start \/ DetNew \/ DetSelect
SpecDet == Init /\ [][NextDet]_vars

----------------------------------------------------------------------------
\* Vocabulary of the properties, stated without the operators of the model.

Range(q) == {q[i] : i \in DOMAIN q}
Count(q, x) == Cardinality({i \in DOMAIN q : q[i] = x})
HasRepeat(q) == \E i, j \in DOMAIN q : i # j /\ q[i] = q[j]

IsSelect == call.op = "select_random_projects"
IsRecommend == call.op = "get_recommended_sample_size"
IsLoad == call.op = "load_projects_from_excel"
IsRandomize == call.op = "randomize_projects"

\* the text between the first and the last non-blank character
Inked(t) == {i \in DOMAIN t : t[i] \notin Whitespace}
Lowest(S) == CHOOSE i \in S : \A j \in S : i <= j
Highest(S) == CHOOSE i \in S : \A j \in S : j <= i
Trimmed(t) == IF Inked(t) = {} THEN <<>> ELSE SubSeq(t, Lowest(Inked(t)), Highest(Inked(t)))

\* the entries of a raw list that survive, and the k-th of them
Survivors(raw) == {i \in DOMAIN raw : Inked(str(raw[i])) # {}}
Kth(S, k) == CHOOSE i \in S : Cardinality({j \in S : j <= i}) = k
IsNormalOf(ps, raw) ==
    /\ Len(ps) = Cardinality(Survivors(raw))
    /\ \A k \in DOMAIN ps : ps[k] = Trimmed(str(raw[Kth(Survivors(raw), k)]))

\* the bucket table of the recommendation tiers
Table(n) ==
    CASE n \in 0..10 -> <<n, n, n>>
      [] n \in 11..25 -> <<IF n < 15 THEN n ELSE 15, IF n < 12 THEN n ELSE 12, 8>>
      [] n \in 26..50 -> <<IF n < 25 THEN n ELSE 25, 18, 12>>
      [] n \in 51..100 -> <<35, 25, 15>>
      [] n \in 101..200 -> <<50, 35, 20>>
      [] n > 200 -> <<75, 50, 30>>
TierOf(n, level) ==
    CASE level = "conservative" -> Table(n)[1]
      [] level = "moderate" -> Table(n)[2]
      [] level = "aggressive" -> Table(n)[3]

----------------------------------------------------------------------------
\* C1 as stated: for 0 < K <= |P| the selection has exactly K elements, all
\* members of P, and no element appears twice in the output.
C1Case ==
    IsSelect /\ 0 < call.num_to_select /\ call.num_to_select <= Len(call.projects)

C1_NoRepeatedName ==
    C1Case => /\ raised = "none"
              /\ Len(ret) = call.num_to_select
              /\ Range(ret) \subseteq Range(call.projects)
              /\ ~HasRepeat(ret)

\* C1 amended: for 0 < K <= |P| the selection has exactly K elements, all
\* members of P, and no position of P is drawn twice: each name appears in the
\* output at most as often as it appears in P.
C1_SubBag ==
    C1Case => /\ raised = "none"
              /\ Len(ret) = call.num_to_select
              /\ Range(ret) \subseteq Range(call.projects)
              /\ \A x \in Range(call.projects) : Count(ret, x) <= Count(call.projects, x)

C1_Witness ==
    /\ C1Case
    /\ raised = "none"
    /\ Len(ret) < Len(call.projects)
    /\ HasRepeat(ret)
    /\ Cardinality(Range(call.projects)) = 2

\* C2: two selections made right after constructing with the same explicit
\* integer seed, on the same list with the same count, return the same sequence.
C2_Determinism ==
    (/\ hist.prev # NoRun
     /\ hist.cur # NoRun
     /\ hist.cur.seed.t = "int"
     /\ hist.prev.seed = hist.cur.seed
     /\ hist.prev.projects = hist.cur.projects
     /\ hist.prev.num_to_select = hist.cur.num_to_select)
    => hist.prev.ret = hist.cur.ret

\* C3: get_recommended_sample_size(N) returns the tier counts of the bucket
\* table, upper boundaries inclusive; N=10 gives 10/10/10 and N=11 gives 11/11/8.
C3_Table ==
    IsRecommend =>
        /\ raised = "none"
        /\ ret.total_projects = call.total_projects
        /\ <<ret.conservative, ret.moderate, ret.aggressive>> = Table(call.total_projects)
        /\ call.total_projects = 10 => <<ret.conservative, ret.moderate, ret.aggressive>> = <<10, 10, 10>>
        /\ call.total_projects = 11 => <<ret.conservative, ret.moderate, ret.aggressive>> = <<11, 11, 8>>

C3_Witness ==
    /\ IsRecommend
    /\ call.total_projects = 200
    /\ <<ret.conservative, ret.moderate, ret.aggressive>> = <<50, 35, 20>>

\* C4: for K > |P| the selection warns, raises nothing and returns exactly |P|
\* elements, also when P is empty.
C4_Clamp ==
    (IsSelect /\ call.num_to_select > Len(call.projects)) =>
        /\ raised = "none"
        /\ Len(ret) = Len(call.projects)
        /\ out = <<Warning(call.num_to_select, Len(call.projects))>>

C4_Witness ==
    /\ IsSelect
    /\ call.num_to_select > Len(call.projects)
    /\ Len(call.projects) = 2
    /\ raised = "none"
    /\ Len(ret) = 2
    /\ out # <<>>

\* C5: for K <= 0 the selection returns an empty sequence and raises nothing.
C5_Empty ==
    (IsSelect /\ call.num_to_select <= 0) => (raised = "none" /\ ret = <<>>)

C5_Witness ==
    /\ IsSelect
    /\ call.num_to_select < 0
    /\ call.projects # <<>>
    /\ raised = "none"
    /\ ret = <<>>

\* the randomize_projects calls whose input resolves to no project
ResolvesEmpty(c) ==
    \/ c.input_data.t = "list" /\ Survivors(c.input_data.items) = {}
    \/ c.input_data.t = "str"
       /\ load_projects_from_excel(c.input_data.file, c.project_column).ret = <<>>

\* C6: a randomize_projects call whose input resolves to no project returns a
\* result with the error field only, computes no recommendation, performs no
\* selection and leaves the generator where it was, whatever count and tier.
C6_ErrorOnly ==
    [][(call'.op = "randomize_projects" /\ ResolvesEmpty(call')) =>
          /\ raised' = "none"
          /\ DOMAIN ret' = {"error"}
          /\ ran' \cap {"recommend", "select"} = {}
          /\ draws' = 0
          /\ rng' = rng]_vars

C6_Witness ==
    /\ IsRandomize
    /\ call.input_data.t = "list"
    /\ Len(call.input_data.items) = 2
    /\ Survivors(call.input_data.items) = {}
    /\ raised = "none"
    /\ DOMAIN ret = {"error"}

\* the number of projects a randomize_projects call resolves
Total(c) ==
    IF c.input_data.t = "list" THEN Cardinality(Survivors(c.input_data.items))
    ELSE Len(load_projects_from_excel(c.input_data.file, c.project_column).ret)

Clamped(k, n) == IF k > n THEN n ELSE IF k < 0 THEN 0 ELSE k

\* C7: with a non-empty resolved list of size N, randomize_projects selects the
\* named tier's count for N when no count is given and uses the explicit count
\* when one is given; N <= 10 at level moderate selects all N, 100.0 percent.
C7_TierCount ==
    (IsRandomize /\ call.input_data.t \in {"str", "list"} /\ Total(call) > 0
        /\ (call.num_to_select = None => call.recommendation_level \in TierNames)) =>
        /\ raised = "none"
        /\ ret.total_projects = Total(call)
        /\ ret.selected_count = Len(ret.selected_projects)
        /\ call.num_to_select = None =>
               ret.selected_count = TierOf(Total(call), call.recommendation_level)
        /\ call.num_to_select # None =>
               ret.selected_count = Clamped(call.num_to_select.n, Total(call))
        /\ (call.num_to_select = None /\ call.recommendation_level = "moderate"
               /\ Total(call) <= 10) =>
               (ret.selected_count = Total(call) /\ ret.selection_percentage = 1000)

C7_Witness ==
    /\ IsRandomize
    /\ call.input_data.t = "list"
    /\ call.num_to_select = None
    /\ call.recommendation_level = "aggressive"
    /\ raised = "none"
    /\ ret.total_projects = 13
    /\ ret.selected_count = 8

\* C8: the list a randomize_projects call resolves from a raw list holds the
\* trimmed text of exactly the entries that are not blank, in input order and
\* with duplicates kept; a list with nothing but blanks resolves to the empty
\* list without an exception.  The spreadsheet loader does the same to the
\* cells of the column.
C8_Normalization ==
    /\ (IsRandomize /\ call.input_data.t = "list") =>
           /\ raised # "ValueError"
           /\ IsNormalOf(resolved, call.input_data.items)
           /\ \A k \in DOMAIN resolved :
                  /\ resolved[k] # <<>>
                  /\ resolved[k][1] \notin Whitespace
                  /\ resolved[k][Len(resolved[k])] \notin Whitespace
    /\ (IsLoad /\ out[1].msg = "Loaded projects from Excel file") =>
           LET named == call.project_column # None /\ call.project_column.name # ""
               i == IF named
                    THEN CHOOSE c \in DOMAIN call.file.columns :
                             call.file.columns[c].name = call.project_column.name
                    ELSE 1
           IN  IsNormalOf(ret, SelectSeq(call.file.columns[i].cells, NotNa))

C8_Witness ==
    /\ IsRandomize
    /\ call.input_data.t = "list"
    /\ Len(call.input_data.items) = 3
    /\ Survivors(call.input_data.items) = {1, 3}
    /\ Len(resolved) = 2
    /\ resolved[1] # resolved[2]
    /\ resolved[1] # str(call.input_data.items[1])

\* the loads that cannot produce a column
LoadFails(file, project_column) ==
    \/ ~file.readable
    \/ /\ project_column # None
       /\ project_column.name # ""
       /\ \A i \in DOMAIN file.columns : file.columns[i].name # project_column.name

IsDiagnostic(line) == line.msg = "Error loading Excel file"

\* C9: when the file cannot be read or the named column is missing,
\* load_projects_from_excel returns the empty list, prints a diagnostic and
\* raises nothing, and randomize_projects on that path returns the error result.
C9_SoftFail ==
    /\ (IsLoad /\ LoadFails(call.file, call.project_column)) =>
           /\ raised = "none"
           /\ ret = <<>>
           /\ Len(out) = 1 /\ IsDiagnostic(out[1])
    /\ (IsRandomize /\ call.input_data.t = "str"
           /\ LoadFails(call.input_data.file, call.project_column)) =>
           /\ raised = "none"
           /\ DOMAIN ret = {"error"}
           /\ Len(out) = 1 /\ IsDiagnostic(out[1])

C9_Witness ==
    /\ IsRandomize
    /\ call.input_data.t = "str"
    /\ call.input_data.file.readable
    /\ call.project_column = Col("Missing")
    /\ raised = "none"
    /\ DOMAIN ret = {"error"}
    /\ IsDiagnostic(out[1])

\* C10: randomize_projects on an input that is neither a string nor a list
\* raises ValueError to its caller: nothing is returned, nothing is loaded,
\* recommended or selected.
C10_UsageError ==
    (IsRandomize /\ call.input_data.t \notin {"str", "list"}) =>
        /\ raised = "ValueError"
        /\ ret = NoReturn
        /\ ran = {}
        /\ draws = 0
        /\ out = <<>>

C10_Witness ==
    /\ IsRandomize
    /\ call.input_data = OtherV
    /\ call.num_to_select = IntV(1)
    /\ raised = "ValueError"

====
